---------------------------- MODULE Spec2Model ----------------------------
(***************************************************************************)
(* AirCat: the sample cache (src/src/cache.c) and the ALSA output mixer    *)
(* (src/src/outputs/output_alsa.c) as a state machine.                     *)
(*                                                                         *)
(* Frames are numbered 1, 2, 3, ... in the order input_cb delivers them;   *)
(* the cache buffer, the producer's staging buffer and the frames handed   *)
(* to the consumer are sequences of these numbers.  A format is "none"     *)
(* (A_FORMAT_INIT, samplerate 0 and channels 0), "A" or "B".               *)
(*                                                                         *)
(* Threads: the cache's producer thread (threaded mode), the consumer of   *)
(* the cache (a direct caller of cache_read, or the mixer thread), an      *)
(* outside caller of the cache (cache_flush, cache_unlock) and a caller of *)
(* the public stream API.  pthread mutexes are variables naming their      *)
(* holder.  Unlocking a default mutex that the caller does not hold is     *)
(* undefined; on the glibc build it leaves the mutex unlocked, and that is *)
(* what unlock does here.  Relocking a default mutex blocks.               *)
(***************************************************************************)
EXTENDS Integers, Sequences, FiniteSets, TLC

(***************************************************************************)
(* Bounds of the model.                                                    *)
(***************************************************************************)
\* h->size, the capacity given to cache_open, in frames.
CacheSize == 2

\* Capacity of the producer thread's staging buffer (BUFFER_SIZE / 4 frames
\* in cache.c, scaled down).
StageCap == 2

\* Number of frames input_cb delivers before it only returns 0 or end of stream.
MaxFrames == 4

\* Largest number of frames a caller asks cache_read for: one more than the
\* cache can hold.
MaxReq == CacheSize + 1

\* Number of streams that contribute to one mixer pass.
MaxStreams == 2

\* Number of public stream calls made on the output.
MaxCalls == 3

\* The cache time given to add_stream and set_cache_stream when not 0.
DelayMs == 1

\* Frames the mixer asks of each stream in one pass (BUFFER_SIZE in
\* output_alsa.c, scaled down).
MixLen == 1

\* Largest played time, in milliseconds, given to restore_stream.
MaxMs == 3

\* Samples in the mixer's buffers where a whole pass is followed (len of
\* output_alsa_mix_streams, scaled down).
PassLen == 2

\* Number of mixer passes followed.
MaxPasses == 2

\* The last second of the clock read by time(NULL); the clock starts at 1.
MaxTime == 8

Formats == {"A", "B"}

Min(a, b) == IF a < b THEN a ELSE b

VARIABLES
    \* struct cache_handle
    use_thread, buffer, len, is_ready, fmt_list, fmt_len, flush, stop,
    input_lock,
    \* cache_read_thread: position and locals
    ppc, stage, in_fmt,
    \* cache_read: position and locals; the last call's request and results
    cpc, rd_size, rd_ids, rd_ret, rd_fmt, rd_req, rd_pre,
    \* outside caller of the cache: position
    xpc,
    \* input_cb: frames delivered so far, end of stream returned, the format
    \* it last wrote, the format of each delivered frame
    produced, eos, src_fmt, fmtOf,
    \* history: whether a flush happened, the frames cache_read returned
    \* before the first flush, whether len reached size since the cache was
    \* last empty, whether some cache_read on a ready cache asked for no
    \* more than the frames of one format at the front of the buffer
    out, flushed, ever_full, part_read,
    \* struct output: holder of output.mutex
    out_mutex,
    \* struct output_stream; s_cache is "open" or "null" (s->cache == NULL)
    is_playing, end_of_stream, played, abort, s_cache, delay, event_cb,
    buffering,
    \* history: the last two BUFFERING / READY events given to the stream's
    \* event callback, and the number of END events given to it
    edges, ends,
    \* the number of public stream calls made so far
    calls,
    \* output_alsa_mix_streams: one sample of the output buffer, the flag
    \* first, the streams folded in so far in this pass; of the last stream
    \* of the pass, the input sample and volume, the output sample it was
    \* added to (0 for the first stream) and its scaled sample
    p_out, first, mixed, mix_in, mix_vol, mix_prev, mix_sample,
    \* whether malloc can return NULL; history: a malloc of cache_put_format
    \* returned NULL; the fields of the cache handle that were written by a
    \* thread that did not hold h->mutex
    low_mem, oom, bare,
    \* history: the ways input_lock was unlocked by a thread that did not
    \* hold it ("unlock_free": it was not locked, "unlock_other": another
    \* thread held it); the holder of input_lock when cache_close was
    \* called ("none": not called)
    misuse, close_lock,
    \* struct output: the device format; history: the value last given to
    \* restore_stream and the value get_status_stream(PLAYED) returned after
    \* it (-1: none)
    samplerate, channels, restored, status_ret,
    \* output_alsa_mix_streams, a whole pass: the output buffer, out_size;
    \* history: in_size, volume and input samples of each stream that
    \* contributed so far in this pass, in list order; the number of
    \* passes started
    out_buffer, out_size, contrib, passes,
    \* struct output: h->streams (0 is NULL) and the next field of each
    \* stream; add_stream callers: position; the remove_stream caller:
    \* position, its argument s and its locals prev and cur; history: the
    \* streams whose add_stream returned, those whose remove_stream
    \* returned, and the streams the last mixer pass walked over
    streams, s_next, add_pc, r_pc, r_s, r_prev, r_cur, added, removed, walked,
    \* output_alsa_thread: the thread runs (it has not left its loop), its
    \* locals start and stopped; the clock of time(NULL), in seconds;
    \* history: the time of the first pass of the present run of empty
    \* passes (0: the last pass had audio), and the length of that run when
    \* the device was last drained (-1: never drained)
    t_run, start, stopped, now, sil_from, drain_run

cacheVars == <<use_thread, buffer, len, is_ready, fmt_list, fmt_len, flush,
               stop, input_lock>>
prodVars == <<ppc, stage, in_fmt>>
readVars == <<cpc, rd_size, rd_ids, rd_ret, rd_fmt, rd_req, rd_pre>>
extVars == <<xpc>>
srcVars == <<produced, eos, src_fmt, fmtOf>>
histVars == <<out, flushed, ever_full, part_read>>
streamVars == <<out_mutex, is_playing, end_of_stream, played, abort, s_cache,
                delay, event_cb, buffering, edges, ends, calls>>

mixVars == <<p_out, first, mixed, mix_in, mix_vol, mix_prev, mix_sample>>

\* History of the allocator and of the writes made outside h->mutex.
auditVars == <<oom, bare, misuse, close_lock>>

devVars == <<samplerate, channels, restored, status_ret>>

\* State that the cache, the stream calls and the sample loop leave alone.
passVars == <<out_buffer, out_size, contrib, passes>>

listVars == <<streams, s_next, add_pc, r_pc, r_s, r_prev, r_cur, added,
              removed, walked>>

thrVars == <<t_run, start, stopped, now, sil_from, drain_run>>

auxVars == <<low_mem, devVars, passVars, listVars, thrVars>>

vars == <<cacheVars, prodVars, readVars, extVars, srcVars, histVars,
          streamVars, mixVars, auditVars, auxVars>>

(***************************************************************************)
(* input_cb.  A call with room for `room` frames returns -1 (end of        *)
(* stream, and -1 again on every later call) or 0..room frames, and either *)
(* writes a format to its out_fmt argument or leaves the argument alone    *)
(* ("keep").                                                               *)
(***************************************************************************)
\* The formats a call may write.  The stream starts under one format and
\* changes to the other at most once; the cache only compares formats, so
\* the first is taken to be "A".
CbFormats ==
    CASE src_fmt = "none" -> {"A"}
      [] src_fmt = "A" -> {"A", "B"}
      [] src_fmt = "B" -> {"B"}

CbResults(room) ==
    IF eos THEN {[n |-> -1, fmt |-> "keep"]}
    ELSE {[n |-> k, fmt |-> f] :
              k \in 0..Min(room, MaxFrames - produced),
              f \in CbFormats \cup {"keep"}}
         \cup {[n |-> -1, fmt |-> "keep"]}

\* The frames a call returning r.n >= 0 delivers.
NewFrames(r) == [i \in 1..r.n |-> produced + i]

\* The format the source has for the frames of a call: the one it writes,
\* or the one it wrote last.
EffFmt(r) == IF r.fmt = "keep" THEN src_fmt ELSE r.fmt

\* The source after a call that returned r.
SrcAfter(r) ==
    IF r.n < 0
    THEN eos' = TRUE /\ UNCHANGED <<produced, src_fmt, fmtOf>>
    ELSE /\ produced' = produced + r.n
         /\ src_fmt' = EffFmt(r)
         /\ fmtOf' = fmtOf \o [i \in 1..r.n |-> EffFmt(r)]
         /\ UNCHANGED eos

(***************************************************************************)
(* Format list.  fmt_first is the head of fmt_list, fmt_last its last      *)
(* element; an empty sequence is fmt_first = fmt_last = NULL.              *)
(***************************************************************************)
\* format_cmp(a, b) != 0
format_cmp(a, b) == a # b

\* cache_put_format: append a segment that records fmt_len, reset fmt_len.
cache_put_format(list, flen, fmt) ==
    [list |-> Append(list, [fmt |-> fmt, len |-> flen]), fmt_len |-> 0]

\* cache_get_format: drop the head segment.
cache_get_format(list) == IF list = <<>> THEN list ELSE Tail(list)

\* The producer's "update format list" step for a batch of k frames whose
\* input format is fmt: cache.c 234-239 and 343-348.
NeedsSegment(list, fmt) ==
    \/ list = <<>>
    \/ fmt # "none" /\ format_cmp(fmt, list[Len(list)].fmt)

\* ok: malloc in cache_put_format returns memory; when it returns NULL
\* cache_put_format returns -1, which its callers do not look at.
UpdateFormat(list, flen, fmt, k, ok) ==
    LET put == IF NeedsSegment(list, fmt) /\ ok
               THEN cache_put_format(list, flen, fmt)
               ELSE [list |-> list, fmt_len |-> flen]
    IN  [list |-> put.list, fmt_len |-> put.fmt_len + k,
         failed |-> NeedsSegment(list, fmt) /\ ~ok]

\* The results of malloc: memory (TRUE) or, when memory is short, NULL.
malloc == IF low_mem THEN BOOLEAN ELSE {TRUE}


(***************************************************************************)
(* cache_open.  h->flush is not initialised by cache_open (the handle comes *)
(* from malloc): it starts with either value where it is read, in threaded *)
(* mode.                                                                   *)
(***************************************************************************)
CacheInit ==
    /\ use_thread \in BOOLEAN
    /\ buffer = <<>>
    /\ len = 0
    /\ is_ready = FALSE
    /\ fmt_list = <<>>
    /\ fmt_len = 0
    /\ flush \in (IF use_thread THEN BOOLEAN ELSE {FALSE})
    /\ stop = FALSE
    /\ input_lock = "free"
    /\ ppc = IF use_thread THEN "loop" ELSE "none"
    /\ stage = <<>>
    /\ in_fmt = "none"
    /\ cpc = "idle"
    /\ rd_size = 0
    /\ rd_ids = <<>>
    /\ rd_ret = 0
    /\ rd_fmt = "unset"
    /\ rd_req = 0
    /\ rd_pre = [ready |-> FALSE, buffer |-> <<>>, eos |-> FALSE,
                 segs |-> <<>>]
    /\ xpc = "idle"
    /\ produced = 0
    /\ eos = FALSE
    /\ src_fmt = "none"
    /\ fmtOf = <<>>
    /\ out = <<>>
    /\ flushed = FALSE
    /\ ever_full = FALSE
    /\ part_read = FALSE

(***************************************************************************)
(* History kept with every change of len: whether len has reached size     *)
(* since the cache was last empty.                                         *)
(***************************************************************************)
EverFullNext ==
    ever_full' = IF len' = CacheSize THEN TRUE
                 ELSE IF len' = 0 THEN FALSE ELSE ever_full

(***************************************************************************)
(* cache_lock, cache_unlock on input_lock.                                 *)
(***************************************************************************)
\* pthread_mutex_lock(&h->input_lock) by thread `who`: blocks while held.
cache_lock(who) == input_lock = "free" /\ input_lock' = who

\* pthread_mutex_unlock(&h->input_lock)
cache_unlock == input_lock' = "free"

\* cache_unlock(h) called by thread who ("producer": cache_read_thread,
\* "consumer": the caller of cache_read, "ext": any other caller) does not
\* test who holds input_lock: what the call does wrong.
UnlockMisuse(who) ==
    IF input_lock = who THEN {}
    ELSE IF input_lock = "free" THEN {"unlock_free"}
    ELSE {"unlock_other"}

(***************************************************************************)
(* cache_read_thread, one loop iteration in three steps: the loop test, up *)
(* to the return of input_cb (which touches nothing another thread reads), *)
(* then the locked copy into the cache and the release of input_lock.      *)
(***************************************************************************)
\* The staging buffer after the flush check of lines 205-209.
StageAfterFlush == IF flush THEN <<>> ELSE stage

\* cache_lock(h); if(h->flush) {...}; if(len < BUFFER_SIZE / 4) {
\* ret = input_callback(...); if(ret < 0) break; len += ret; }
P_Fetch ==
    /\ cache_lock("producer")
    /\ flush' = FALSE
    /\ IF Len(StageAfterFlush) < StageCap
       THEN \E r \in CbResults(StageCap - Len(StageAfterFlush)) :
              /\ SrcAfter(r)
              /\ in_fmt' = IF r.fmt = "keep" THEN in_fmt ELSE r.fmt
              /\ IF r.n < 0
                 THEN ppc' = "exited" /\ stage' = StageAfterFlush
                 ELSE ppc' = "copy" /\ stage' = StageAfterFlush \o NewFrames(r)
       ELSE /\ ppc' = "copy"
            /\ stage' = StageAfterFlush
            /\ UNCHANGED <<in_fmt, srcVars>>

\* while(!h->stop): the loop test.  A thread that passed it goes on to
\* cache_lock(h) and does not look at h->stop again before the next test.
P_Loop ==
    /\ ppc = "loop"
    /\ ppc' = IF stop THEN "exited" ELSE "input"
    /\ UNCHANGED <<cacheVars, stage, in_fmt>>
    /\ UNCHANGED <<readVars, extVars, srcVars, histVars, streamVars, mixVars>>
    /\ UNCHANGED <<auditVars, auxVars>>

\* The iteration from cache_lock(h), where the thread waits for
\* input_lock, up to the return of input_cb.
P_Input ==
    /\ ppc = "input"
    /\ P_Fetch
    /\ UNCHANGED <<use_thread, buffer, len, is_ready, fmt_list, fmt_len,
                   stop>>
    /\ UNCHANGED <<readVars, extVars, histVars, streamVars, mixVars>>
    /\ UNCHANGED <<auditVars, auxVars>>

\* in_size = h->size - h->len; if(in_size > len) in_size = len;
CopySizeUnclamped == Len(stage)

CopySize == Min(CacheSize - len, Len(stage))

\* if(h->len == h->size) h->is_ready = 1;  with l the new h->len
ReadyAtAnyFill(l) == IF l > 0 THEN TRUE ELSE is_ready

ReadyAfterFill(l) == IF l = CacheSize THEN TRUE ELSE is_ready

\* if(h->len == 0) h->is_ready = 0;  with l the new h->len
ReadyNeverCleared(l) == is_ready

ReadyAfterRead(l) == IF l = 0 THEN FALSE ELSE is_ready

\* memmove(h->buffer, &h->buffer[size*4], h->len*4): the buffer after the
\* first n frames were read.
memmove_none(buf, n) == buf

memmove_down(buf, n) == SubSeq(buf, n + 1, Len(buf))

\* pthread_mutex_lock(&h->mutex); copy; update format list; is_ready;
\* pthread_mutex_unlock(&h->mutex); memmove; cache_unlock(h);
P_Copy ==
    /\ ppc = "copy"
    /\ \E ok \in malloc :
         LET in_size == CopySize
             upd == UpdateFormat(fmt_list, fmt_len, in_fmt, in_size, ok)
         IN  /\ buffer' = buffer \o SubSeq(stage, 1, in_size)
             /\ len' = len + in_size
             /\ stage' = SubSeq(stage, in_size + 1, Len(stage))
             /\ fmt_list' = upd.list
             /\ fmt_len' = upd.fmt_len
             /\ is_ready' = ReadyAfterFill(len + in_size)
             /\ oom' = (oom \/ upd.failed)
    /\ UNCHANGED bare
    /\ misuse' = misuse \cup UnlockMisuse("producer")
    /\ cache_unlock
    /\ ppc' = "loop"
    /\ EverFullNext
    /\ UNCHANGED <<use_thread, flush, stop, in_fmt, out, flushed, part_read>>
    /\ UNCHANGED <<readVars, extVars, srcVars, streamVars, mixVars>>
    /\ UNCHANGED <<close_lock, auxVars>>
(***************************************************************************)
(* cache_read.                                                             *)
(***************************************************************************)
\* The frames at the front of buf that have the format of its first frame.
RunLen(buf) ==
    IF buf = <<>> THEN 0
    ELSE LET other == {i \in 1..Len(buf) : fmtOf[buf[i]] # fmtOf[buf[1]]}
         IN  IF other = {} THEN Len(buf)
             ELSE (CHOOSE i \in other : \A j \in other : i <= j) - 1

\* a < b for unsigned long a and b.  fmt_len and the len of a segment are
\* unsigned long: a subtraction that goes below 0 wraps to 2^64 - k, kept
\* here as the negative number -k, which compares above every count of
\* frames.
ULess(a, b) ==
    IF (a < 0) = (b < 0) THEN a < b ELSE b < 0

\* Lines 282-307 on a ready cache asked for req frames: the number of
\* frames to copy, the format copied to the caller (or "unset"), and the
\* format list and fmt_len left.
ReadSection(req) ==
    LET size1 == Min(req, len)
    IN  IF fmt_list = <<>>
        THEN [n |-> size1, fmt |-> "unset", list |-> fmt_list,
              fmt_len |-> fmt_len]
        ELSE IF Len(fmt_list) >= 2
        THEN IF ULess(fmt_list[2].len, size1)
             THEN [n |-> fmt_list[2].len, fmt |-> fmt_list[1].fmt,
                   list |-> [cache_get_format(fmt_list) EXCEPT ![1].len = 0],
                   fmt_len |-> fmt_len]
             ELSE [n |-> size1, fmt |-> fmt_list[1].fmt,
                   list |-> [fmt_list EXCEPT ![2].len = @ - size1],
                   fmt_len |-> fmt_len]
        ELSE [n |-> size1, fmt |-> fmt_list[1].fmt, list |-> fmt_list,
              fmt_len |-> fmt_len - size1]

\* cache_read up to pthread_mutex_unlock(&h->mutex) (lines 276-322).
ReadLocked(req) ==
    /\ rd_req' = req
    /\ rd_pre' = [ready |-> is_ready, buffer |-> buffer, eos |-> eos,
                  segs |-> [i \in 1..Len(fmt_list) |-> fmt_list[i].fmt]]
    /\ part_read' = (part_read \/ (is_ready /\ req <= RunLen(buffer)))
    /\ IF is_ready
       THEN LET r == ReadSection(req)
            IN  /\ rd_size' = r.n
                /\ rd_fmt' = r.fmt
                /\ rd_ids' = SubSeq(buffer, 1, r.n)
                /\ buffer' = SubSeq(memmove_down(buffer, r.n), 1, len - r.n)
                /\ len' = len - r.n
                /\ fmt_list' = r.list
                /\ fmt_len' = r.fmt_len
                /\ is_ready' = ReadyAfterRead(len - r.n)
       ELSE /\ rd_size' = 0
            /\ rd_fmt' = "unset"
            /\ rd_ids' = <<>>
            /\ UNCHANGED <<buffer, len, fmt_list, fmt_len, is_ready>>

\* return v: the frames of this call reach the caller unless it returns -1.
ReadReturn(v) ==
    /\ rd_ret' = v
    /\ out' = IF v > 0 /\ ~flushed THEN out \o rd_ids ELSE out
    /\ cpc' = "ret"

\* cache_read(h, buffer, req, fmt), to the end of the locked part; in
\* threaded mode that is the whole call (return size).
ReadCall(req) ==
    /\ ReadLocked(req)
    /\ IF use_thread
       THEN /\ cpc' = "ret"
            /\ rd_ret' = rd_size'
            /\ out' = IF rd_size' > 0 /\ ~flushed THEN out \o rd_ids'
                      ELSE out
       ELSE /\ cpc' = "refill"
            /\ rd_ret' = 0
            /\ UNCHANGED out
    /\ EverFullNext
    /\ UNCHANGED <<use_thread, flush, stop, input_lock, flushed>>
    /\ UNCHANGED <<prodVars, extVars, srcVars>>

\* A direct caller of cache_read asks for req frames.
C_Read ==
    /\ cpc = "idle"
    /\ \E req \in 1..MaxReq : ReadCall(req)
    /\ UNCHANGED <<streamVars, mixVars>>

    /\ UNCHANGED <<auditVars, auxVars>>
\* if(!h->use_thread && h->len < h->size) {
\*     if(pthread_mutex_trylock(&h->input_lock) != 0) return size; ... }
\* return size;
C_Refill ==
    /\ cpc = "refill"
    /\ IF len < CacheSize /\ input_lock = "free"
       THEN /\ input_lock' = "consumer"
            /\ cpc' = "cb"
            /\ UNCHANGED <<rd_ret, out>>
       ELSE /\ ReadReturn(rd_size)
            /\ UNCHANGED input_lock
    /\ UNCHANGED <<use_thread, buffer, len, is_ready, fmt_list, fmt_len,
                   flush, stop, flushed, ever_full, part_read>>
    /\ UNCHANGED <<rd_size, rd_ids, rd_fmt, rd_req, rd_pre>>
    /\ UNCHANGED <<prodVars, extVars, srcVars, streamVars, mixVars>>

    /\ UNCHANGED <<auditVars, auxVars>>
\* The fields lines 341-352 write, none of them under h->mutex: h->len and
\* h->fmt_len always, the format list when a segment is appended,
\* h->is_ready when the cache became full.
RefillWrites(upd, l) ==
    {"len", "fmt_len"}
        \cup (IF upd.list # fmt_list THEN {"fmt_list"} ELSE {})
        \cup (IF l = CacheSize THEN {"is_ready"} ELSE {})

\* Lines 331-355: the refill, with input_lock held.
C_RefillCb ==
    /\ cpc = "cb"
    /\ \E r \in CbResults(CacheSize - len), ok \in malloc :
         /\ SrcAfter(r)
         /\ IF r.n < 0
            THEN /\ ReadReturn(IF len = 0 THEN -1 ELSE rd_size)
                 /\ UNCHANGED <<buffer, len, is_ready, fmt_list, fmt_len,
                                input_lock, oom, bare, misuse>>
            ELSE LET fmt == IF r.fmt = "keep" THEN "none" ELSE r.fmt
                     upd == UpdateFormat(fmt_list, fmt_len, fmt, r.n, ok)
                 IN  /\ buffer' = buffer \o NewFrames(r)
                     /\ len' = len + r.n
                     /\ fmt_list' = upd.list
                     /\ fmt_len' = upd.fmt_len
                     /\ is_ready' = ReadyAfterFill(len + r.n)
                     /\ oom' = (oom \/ upd.failed)
                     /\ bare' = bare \cup RefillWrites(upd, len + r.n)
                     /\ misuse' = misuse \cup UnlockMisuse("consumer")
                     /\ cache_unlock
                     /\ ReadReturn(rd_size)
    /\ EverFullNext
    /\ UNCHANGED <<use_thread, flush, stop, flushed, part_read>>
    /\ UNCHANGED <<rd_size, rd_ids, rd_fmt, rd_req, rd_pre>>
    /\ UNCHANGED <<prodVars, extVars, streamVars, mixVars>>
    /\ UNCHANGED <<close_lock, auxVars>>
\* The record of a cache_read call, forgotten once the caller has the result.
NoCall ==
    /\ rd_size' = 0
    /\ rd_ids' = <<>>
    /\ rd_ret' = 0
    /\ rd_fmt' = "unset"
    /\ rd_req' = 0
    /\ rd_pre' = [ready |-> FALSE, buffer |-> <<>>, eos |-> FALSE,
                  segs |-> <<>>]

\* The direct caller of cache_read takes the result.
C_Return ==
    /\ cpc = "ret"
    /\ cpc' = "idle"
    /\ NoCall
    /\ UNCHANGED <<cacheVars, prodVars, extVars, srcVars, histVars,
                   streamVars, mixVars>>

    /\ UNCHANGED <<auditVars, auxVars>>
(***************************************************************************)
(* cache_flush and cache_unlock by an outside caller.                      *)
(***************************************************************************)
\* Lines 369-389 of cache_flush, after cache_lock(h).  fmt_len is not reset.
FlushLocked ==
    /\ is_ready' = FALSE
    /\ len' = 0
    /\ buffer' = <<>>
    /\ fmt_list' = <<>>
    /\ flush' = IF use_thread THEN TRUE ELSE flush
    /\ flushed' = TRUE
    /\ UNCHANGED <<use_thread, fmt_len, stop, part_read>>

\* The caller enters cache_flush and finds input_lock held: it waits in
\* cache_lock(h).
X_FlushWait ==
    /\ xpc = "idle"
    /\ input_lock # "free"
    /\ xpc' = "flush_lock"
    /\ UNCHANGED <<cacheVars, prodVars, readVars, srcVars, histVars,
                   streamVars, mixVars>>

    /\ UNCHANGED <<auditVars, auxVars>>
\* cache_lock(h) succeeds, at once or after a wait, and cache_flush runs to
\* its end; input_lock stays held by the caller.
X_Flush ==
    /\ xpc \in {"idle", "flush_lock"}
    /\ cache_lock("ext")
    /\ FlushLocked
    /\ xpc' = "idle"
    /\ EverFullNext
    /\ out' = <<>>
    /\ UNCHANGED <<prodVars, readVars, srcVars, streamVars, mixVars>>

    /\ UNCHANGED <<auditVars, auxVars>>
\* The caller that holds input_lock releases it: cache_unlock(h).
X_Unlock ==
    /\ xpc = "idle"
    /\ input_lock = "ext"
    /\ cache_unlock
    /\ UNCHANGED xpc
    /\ UNCHANGED <<use_thread, buffer, len, is_ready, fmt_list, fmt_len,
                   flush, stop>>
    /\ UNCHANGED <<prodVars, readVars, srcVars, histVars, streamVars, mixVars>>

    /\ UNCHANGED <<auditVars, auxVars>>
(***************************************************************************)
(* output_alsa_add_stream: the stream around the cache, not playing.       *)
(* cache_open fails for a size of 0, so the stream starts with delay > 0.  *)
(***************************************************************************)
StreamInit ==
    /\ out_mutex = "free"
    /\ is_playing = FALSE
    /\ end_of_stream = FALSE
    /\ played = 0
    /\ abort = FALSE
    /\ s_cache = "open"
    /\ delay = DelayMs
    /\ event_cb = FALSE
    /\ buffering = FALSE
    /\ edges = <<>>
    /\ ends = 0
    /\ calls = 0

(***************************************************************************)
(* The sample arithmetic of the mixer (integer build).  int32_t values are *)
(* integers in INT32_MIN..INT32_MAX; an int64_t intermediate is kept as a  *)
(* sign and a little-endian sequence of base-256 digits, so that no step   *)
(* leaves the 32-bit range of the model checker's own integers.            *)
(***************************************************************************)
INT32_MAX == 2147483647

INT32_MIN == -2147483647 - 1

OUTPUT_VOLUME_MAX == 65535

\* The digits of n >= 0, at least k of them.
RECURSIVE Digits(_, _)
Digits(n, k) ==
    IF n = 0 /\ k <= 0 THEN <<>>
    ELSE <<n % 256>> \o Digits(n \div 256, k - 1)

\* |x| for an int32_t x, as four digits (|INT32_MIN| is 2^31).
Magnitude(x) ==
    IF x >= 0 THEN Digits(x, 4)
    ELSE IF x = INT32_MIN THEN <<0, 0, 0, 128>>
    ELSE Digits(-x, 4)

\* ds * v + carry, for 0 <= v < 2^16.
RECURSIVE MulDigits(_, _, _)
MulDigits(ds, v, carry) ==
    IF ds = <<>> THEN Digits(carry, 0)
    ELSE LET t == Head(ds) * v + carry
         IN  <<t % 256>> \o MulDigits(Tail(ds), v, t \div 256)

\* ds / d rounded down, for 0 < d < 2^16: long division from the top digit.
RECURSIVE DivDigits(_, _, _)
DivDigits(ds, d, rem) ==
    IF ds = <<>> THEN <<>>
    ELSE LET t == rem * 256 + ds[Len(ds)]
         IN  DivDigits(SubSeq(ds, 1, Len(ds) - 1), d, t % d) \o <<t \div d>>

\* The low four digits of ds.
Low32(ds) == [i \in 1..4 |-> IF i <= Len(ds) THEN ds[i] ELSE 0]

\* 2^32 - ds modulo 2^32, for four digits ds.
RECURSIVE Negate(_, _)
Negate(ds, carry) ==
    IF ds = <<>> THEN <<>>
    ELSE LET t == (255 - Head(ds)) + carry
         IN  <<t % 256>> \o Negate(Tail(ds), t \div 256)

\* (int32_t) value: the low 32 bits of a 64-bit value, read as two's
\* complement.
Cast32(neg, ds) ==
    LET bits == IF neg THEN Negate(Low32(ds), 1) ELSE Low32(ds)
        top == IF bits[4] >= 128 THEN bits[4] - 256 ELSE bits[4]
    IN  ((top * 256 + bits[3]) * 256 + bits[2]) * 256 + bits[1]

\* value = ((int64_t)x * v) / OUTPUT_VOLUME_MAX; return (int32_t) value;
\* C division rounds toward zero.
output_alsa_vol(x, v) ==
    LET prod == MulDigits(Magnitude(x), v, 0)
        quot == DivDigits(prod, OUTPUT_VOLUME_MAX, 0)
    IN  Cast32(x < 0, quot)

\* An int32_t as a 64-bit sum operand: high part and low 16 bits.
Hi16(a) == a \div 65536

Lo16(a) == a % 65536

\* sum = (int64_t)a + (int64_t)b
Sum64(a, b) ==
    LET lo == Lo16(a) + Lo16(b)
    IN  [hi |-> Hi16(a) + Hi16(b) + lo \div 65536, lo |-> lo % 65536]

\* (int32_t) sum
CastSum32(sum) ==
    (((sum.hi + 32768) % 65536) - 32768) * 65536 + sum.lo

\* The sum without the two clamps.
output_alsa_add_wrap(a, b) == CastSum32(Sum64(a, b))

\* if(sum > 0x7FFFFFFFLL) sum = 0x7FFFFFFFLL;
\* else if(sum < -0x80000000LL) sum = -0x80000000LL; return (int32_t) sum;
output_alsa_add(a, b) ==
    LET sum == Sum64(a, b)
    IN  IF sum.hi > Hi16(INT32_MAX) THEN INT32_MAX
        ELSE IF sum.hi < Hi16(INT32_MIN) THEN INT32_MIN
        ELSE CastSum32(sum)

\* Input samples and volumes of the streams.
Samples ==
    {INT32_MIN, INT32_MIN + 1, -(2^30), -32767, -1, 0, 1, 32767, 2^30,
     INT32_MAX - 1, INT32_MAX}

Volumes ==
    {0, 1, 256, OUTPUT_VOLUME_MAX \div 2, OUTPUT_VOLUME_MAX}

\* The mixer thread before its first pass; the output buffer comes from
\* malloc and holds any sample.
MixInit ==
    /\ p_out \in Samples
    /\ first = TRUE
    /\ mixed = 0
    /\ mix_in = 0
    /\ mix_vol = 0
    /\ mix_prev = 0
    /\ mix_sample = 0

\* The sample variables where the arithmetic of the mixer is left out.
MixIdle ==
    /\ p_out = 0
    /\ first = TRUE
    /\ mixed = 0
    /\ mix_in = 0
    /\ mix_vol = 0
    /\ mix_prev = 0
    /\ mix_sample = 0

\* Memory is not short: malloc returns memory.
MemInit ==
    /\ low_mem = FALSE
    /\ oom = FALSE
    /\ bare = {}
    /\ misuse = {}
    /\ close_lock = "none"

\* output_alsa_open: the device format, where it plays no part.
DevInit ==
    /\ samplerate = 48000
    /\ channels = 2
    /\ restored = -1
    /\ status_ret = -1

\* output_alsa_thread at its start: start = 0; stopped = 1.
ThreadInit ==
    /\ t_run = TRUE
    /\ start = 0
    /\ stopped = TRUE
    /\ now = 1
    /\ sil_from = 0
    /\ drain_run = -1

\* output_alsa_open: h->streams = NULL; no stream call is under way.
ListInit ==
    /\ streams = 0
    /\ s_next = [s \in 1..MaxStreams |-> 0]
    /\ add_pc = [s \in 1..MaxStreams |-> "idle"]
    /\ r_pc = "idle"
    /\ r_s = 0
    /\ r_prev = 0
    /\ r_cur = 0
    /\ added = {}
    /\ removed = {}
    /\ walked = <<>>

\* The buffers of a whole pass, where a pass is not followed sample by
\* sample.
PassIdle ==
    /\ out_buffer = <<>>
    /\ out_size = 0
    /\ contrib = <<>>
    /\ passes = 1

Init ==
    CacheInit /\ StreamInit /\ MixIdle /\ MemInit /\ DevInit /\ PassIdle
    /\ ListInit
    /\ ThreadInit

(***************************************************************************)
(* The cache alone: producer thread or pull refill, a reader, a flusher.   *)
(***************************************************************************)

CacheNext ==
    \/ P_Loop
    \/ P_Input
    \/ P_Copy
    \/ C_Read
    \/ C_Refill
    \/ C_RefillCb
    \/ C_Return
    \/ X_FlushWait
    \/ X_Flush
    \/ X_Unlock

SpecCache == Init /\ [][CacheNext]_vars

(***************************************************************************)
(* cache_close by the outside caller of the cache, in three steps:         *)
(* cache_unlock(h); then h->stop = 1 (threaded mode); then pthread_join,   *)
(* which returns once cache_read_thread has returned, and the frees.       *)
(***************************************************************************)
\* cache_close without its cache_unlock(h).
close_keep_lock == UNCHANGED input_lock

\* Lines 411-412: cache_unlock(h).
close_unlock == cache_unlock

K_CloseUnlock ==
    /\ xpc = "idle"
    /\ close_lock' = input_lock
    /\ misuse' = misuse \cup UnlockMisuse("ext")
    /\ close_unlock
    /\ xpc' = "close_stop"
    /\ UNCHANGED <<use_thread, buffer, len, is_ready, fmt_list, fmt_len,
                   flush, stop>>
    /\ UNCHANGED <<prodVars, readVars, srcVars, histVars, streamVars, mixVars,
                   oom, bare, auxVars>>

\* if(h->use_thread) h->stop = 1;
K_CloseStop ==
    /\ xpc = "close_stop"
    /\ stop' = IF use_thread THEN TRUE ELSE stop
    /\ xpc' = "join"
    /\ UNCHANGED <<use_thread, buffer, len, is_ready, fmt_list, fmt_len,
                   flush, input_lock>>
    /\ UNCHANGED <<prodVars, readVars, srcVars, histVars, streamVars, mixVars,
                   auditVars, auxVars>>

\* pthread_join(h->thread, NULL) returns (threaded mode); the format list,
\* the buffer and the handle are freed; return 0.
K_Join ==
    /\ xpc = "join"
    /\ use_thread => ppc = "exited"
    /\ xpc' = "closed"
    /\ UNCHANGED <<cacheVars, prodVars, readVars, srcVars, histVars,
                   streamVars, mixVars, auditVars, auxVars>>

\* The producer thread and an outside caller that flushes, unlocks and
\* closes the cache.  The producer's section under h->mutex is one step of
\* P_Copy, so a reader cannot hold the producer up and is left out.
CloseNext ==
    \/ P_Loop
    \/ P_Input
    \/ P_Copy
    \/ X_FlushWait
    \/ X_Flush
    \/ X_Unlock
    \/ K_CloseUnlock
    \/ K_CloseStop
    \/ K_Join

SpecClose == Init /\ [][CloseNext]_vars

\* The producer thread and the thread inside cache_close are scheduled
\* again and again.
FairClose ==
    /\ SpecClose
    /\ WF_vars(P_Loop)
    /\ WF_vars(P_Input)
    /\ WF_vars(P_Copy)
    /\ WF_vars(K_CloseStop)
    /\ WF_vars(K_Join)

\* The cache alone when memory is short: the malloc of cache_put_format
\* returns memory or NULL.  The producer thread or the pull refill, and a
\* reader; no flush.
MemShort ==
    /\ low_mem = TRUE
    /\ oom = FALSE
    /\ bare = {}
    /\ misuse = {}
    /\ close_lock = "none"

InitAlloc ==
    CacheInit /\ StreamInit /\ MixIdle /\ MemShort /\ DevInit /\ PassIdle
    /\ ListInit
    /\ ThreadInit

AllocNext ==
    \/ P_Loop
    \/ P_Input
    \/ P_Copy
    \/ C_Read
    \/ C_Refill
    \/ C_RefillCb
    \/ C_Return

SpecAlloc == InitAlloc /\ [][AllocNext]_vars

(***************************************************************************)
(* The output: the mixer thread reads the stream's cache under             *)
(* output.mutex; the public stream calls run in another thread (position   *)
(* xpc) and take output.mutex first.  A call that finds output.mutex free  *)
(* and does not wait inside runs to its end in one step.                   *)
(***************************************************************************)
\* s->event_cb(s->event_ud, ev, NULL) for BUFFERING and READY: the window of
\* the last two such events, the first event alone while it is the only one.
Deliver(ev) ==
    edges' = IF Len(edges) < 2 THEN Append(edges, ev) ELSE <<edges[2], ev>>

\* A public call is made and passes pthread_mutex_lock(&h->mutex).
ApiEnter ==
    /\ xpc = "idle"
    /\ out_mutex = "free"
    /\ calls < MaxCalls
    /\ calls' = calls + 1

\* A call that dereferences s->cache == NULL: the process dies inside the
\* call, output.mutex held.
Crash == xpc' = "crashed" /\ out_mutex' = "api"

\* output_alsa_mix_streams on a stream that is paused or ended: continue.
M_Skip ==
    /\ cpc = "idle"
    /\ out_mutex = "free"
    /\ ~is_playing \/ end_of_stream
    /\ UNCHANGED vars

\* output_alsa_mix_streams: pthread_mutex_lock(&h->mutex) and, for a playing
\* stream, in_size = cache_read(s->cache, in_buffer, len, &fmt).
M_Read ==
    /\ cpc = "idle"
    /\ out_mutex = "free"
    /\ is_playing /\ ~end_of_stream
    /\ out_mutex' = "mixer"
    /\ ReadCall(MixLen)
    /\ UNCHANGED <<is_playing, end_of_stream, played, abort, s_cache, delay,
                   event_cb, buffering, edges, ends, calls>>
    /\ UNCHANGED mixVars

    /\ UNCHANGED <<auditVars, auxVars>>
\* The rest of the pass, from the return of cache_read (in_size = rd_ret)
\* to pthread_mutex_unlock(&h->mutex).
M_Return ==
    /\ cpc = "ret"
    /\ out_mutex = "mixer"
    /\ IF rd_ret < 0
       THEN \* end of stream: cache_close(s->cache); s->cache = NULL; END
            /\ end_of_stream' = TRUE
            /\ misuse' = misuse \cup UnlockMisuse("consumer")
            /\ cache_unlock
            /\ stop' = IF use_thread THEN TRUE ELSE stop
            /\ s_cache' = "null"
            /\ ends' = IF event_cb THEN ends + 1 ELSE ends
            /\ UNCHANGED <<buffering, edges, played>>
       ELSE IF rd_ret = 0
       THEN \* nothing read: BUFFERING on the first empty pass
            /\ IF delay > 0
               THEN /\ IF event_cb /\ ~buffering
                       THEN Deliver("BUFFERING") ELSE UNCHANGED edges
                    /\ buffering' = TRUE
               ELSE UNCHANGED <<buffering, edges>>
            /\ UNCHANGED <<end_of_stream, input_lock, stop, s_cache, ends,
                           played, misuse>>
       ELSE \* frames read: READY after buffering, played += in_size
            /\ IF delay > 0 /\ buffering
               THEN /\ IF event_cb THEN Deliver("READY") ELSE UNCHANGED edges
                    /\ buffering' = FALSE
               ELSE UNCHANGED <<buffering, edges>>
            /\ played' = played + rd_ret
            /\ UNCHANGED <<end_of_stream, input_lock, stop, s_cache, ends,
                           misuse>>
    /\ out_mutex' = "free"
    /\ cpc' = "idle"
    /\ NoCall
    /\ UNCHANGED <<use_thread, buffer, len, is_ready, fmt_list, fmt_len,
                   flush>>
    /\ UNCHANGED <<is_playing, abort, delay, event_cb, calls>>
    /\ UNCHANGED <<prodVars, extVars, srcVars, histVars>>
    /\ UNCHANGED mixVars
    /\ UNCHANGED <<oom, bare, close_lock, auxVars>>
\* output_alsa_play_stream: is_playing = 1; cache_unlock(s->cache).
A_Play ==
    /\ ApiEnter
    /\ is_playing' = TRUE
    /\ IF s_cache = "null"
       THEN Crash /\ UNCHANGED <<input_lock, misuse>>
       ELSE /\ misuse' = misuse \cup UnlockMisuse("ext")
            /\ cache_unlock
            /\ UNCHANGED <<xpc, out_mutex>>
    /\ UNCHANGED <<use_thread, buffer, len, is_ready, fmt_list, fmt_len,
                   flush, stop>>
    /\ UNCHANGED <<end_of_stream, played, abort, s_cache, delay, event_cb,
                   buffering, edges, ends>>
    /\ UNCHANGED <<prodVars, readVars, srcVars, histVars>>
    /\ UNCHANGED mixVars
    /\ UNCHANGED <<oom, bare, close_lock, auxVars>>
\* output_alsa_pause_stream: is_playing = 0.
A_Pause ==
    /\ ApiEnter
    /\ is_playing' = FALSE
    /\ UNCHANGED <<out_mutex, end_of_stream, played, abort, s_cache, delay,
                   event_cb, buffering, edges, ends>>
    /\ UNCHANGED <<cacheVars, prodVars, readVars, extVars, srcVars, histVars>>
    /\ UNCHANGED mixVars

    /\ UNCHANGED <<auditVars, auxVars>>
\* output_alsa_flush_stream on a closed cache: cache_flush(NULL).
A_FlushNull ==
    /\ ApiEnter
    /\ s_cache = "null"
    /\ Crash
    /\ UNCHANGED <<is_playing, end_of_stream, played, abort, s_cache, delay,
                   event_cb, buffering, edges, ends>>
    /\ UNCHANGED <<cacheVars, prodVars, readVars, srcVars, histVars>>
    /\ UNCHANGED mixVars

    /\ UNCHANGED <<auditVars, auxVars>>
\* output_alsa_flush_stream finds input_lock held: it waits in the
\* cache_lock(h) of cache_flush, output.mutex held.
A_FlushWait ==
    /\ ApiEnter
    /\ s_cache = "open"
    /\ input_lock # "free"
    /\ xpc' = "flush_lock"
    /\ out_mutex' = "api"
    /\ UNCHANGED <<is_playing, end_of_stream, played, abort, s_cache, delay,
                   event_cb, buffering, edges, ends>>
    /\ UNCHANGED <<cacheVars, prodVars, readVars, srcVars, histVars>>
    /\ UNCHANGED mixVars

    /\ UNCHANGED <<auditVars, auxVars>>
\* output_alsa_flush_stream, at once or after the wait: cache_flush(s->cache);
\* resample_flush(s->res); if(s->is_playing) cache_unlock(s->cache);
\* s->played = 0.
A_Flush ==
    /\ \/ ApiEnter
       \/ xpc = "flush_lock" /\ out_mutex = "api" /\ UNCHANGED calls
    /\ s_cache = "open"
    /\ input_lock = "free"
    /\ FlushLocked
    /\ input_lock' = IF is_playing THEN "free" ELSE "ext"
    /\ played' = 0
    /\ xpc' = "idle"
    /\ out_mutex' = "free"
    /\ EverFullNext
    /\ out' = <<>>
    /\ UNCHANGED <<is_playing, end_of_stream, abort, s_cache, delay, event_cb,
                   buffering, edges, ends>>
    /\ UNCHANGED <<prodVars, readVars, srcVars>>
    /\ UNCHANGED mixVars

    /\ UNCHANGED <<auditVars, auxVars>>
\* output_alsa_abort_stream: is_playing = 0; abort = 1; cache_lock(s->cache),
\* in which the call waits while input_lock is held.
A_Abort ==
    /\ ApiEnter
    /\ is_playing' = FALSE
    /\ abort' = TRUE
    /\ IF s_cache = "null"
       THEN Crash /\ UNCHANGED input_lock
       ELSE IF input_lock = "free"
       THEN input_lock' = "ext" /\ UNCHANGED <<xpc, out_mutex>>
       ELSE xpc' = "abort_lock" /\ out_mutex' = "api" /\ UNCHANGED input_lock
    /\ UNCHANGED <<use_thread, buffer, len, is_ready, fmt_list, fmt_len,
                   flush, stop>>
    /\ UNCHANGED <<end_of_stream, played, s_cache, delay, event_cb, buffering,
                   edges, ends>>
    /\ UNCHANGED <<prodVars, readVars, srcVars, histVars>>
    /\ UNCHANGED mixVars

    /\ UNCHANGED <<auditVars, auxVars>>
\* output_alsa_abort_stream after the wait: cache_lock returns, the played
\* time is computed, pthread_mutex_unlock(&h->mutex).
A_AbortLocked ==
    /\ xpc = "abort_lock"
    /\ out_mutex = "api"
    /\ cache_lock("ext")
    /\ xpc' = "idle"
    /\ out_mutex' = "free"
    /\ UNCHANGED <<use_thread, buffer, len, is_ready, fmt_list, fmt_len,
                   flush, stop>>
    /\ UNCHANGED <<is_playing, end_of_stream, played, abort, s_cache, delay,
                   event_cb, buffering, edges, ends, calls>>
    /\ UNCHANGED <<prodVars, readVars, srcVars, histVars>>
    /\ UNCHANGED mixVars

    /\ UNCHANGED <<auditVars, auxVars>>
\* cache_set_time(s->cache, cache): succeeds or fails.
cache_set_time == BOOLEAN

\* output_alsa_set_cache_stream: ret = cache_set_time(s->cache, cache);
\* if(ret == 0) s->delay = cache.
A_SetCache ==
    /\ ApiEnter
    /\ \E ms \in {0, DelayMs}, ok \in cache_set_time :
         delay' = IF ok THEN ms ELSE delay
    /\ UNCHANGED <<out_mutex, is_playing, end_of_stream, played, abort,
                   s_cache, event_cb, buffering, edges, ends>>
    /\ UNCHANGED <<cacheVars, prodVars, readVars, extVars, srcVars, histVars>>
    /\ UNCHANGED mixVars

    /\ UNCHANGED <<auditVars, auxVars>>
\* output_alsa_set_stream_event_cb: a callback, or NULL.
A_SetEventCb ==
    /\ ApiEnter
    /\ \E cb \in BOOLEAN : event_cb' = cb
    /\ UNCHANGED <<out_mutex, is_playing, end_of_stream, played, abort,
                   s_cache, delay, buffering, edges, ends>>
    /\ UNCHANGED <<cacheVars, prodVars, readVars, extVars, srcVars, histVars>>
    /\ UNCHANGED mixVars

    /\ UNCHANGED <<auditVars, auxVars>>
\* The keys of output_alsa_get_status_stream that reach the cache when
\* delay > 0, and one that does not.
StatusKeys == {"STATUS", "CACHE_STATUS", "CACHE_FILLING"}

\* output_alsa_get_status_stream: reads under output.mutex;
\* cache_is_ready(s->cache) and cache_get_filling(s->cache) when delay > 0.
A_GetStatus ==
    /\ ApiEnter
    /\ \E key \in StatusKeys :
         IF key # "STATUS" /\ delay > 0 /\ s_cache = "null"
         THEN Crash
         ELSE UNCHANGED <<xpc, out_mutex>>
    /\ UNCHANGED <<is_playing, end_of_stream, played, abort, s_cache, delay,
                   event_cb, buffering, edges, ends>>
    /\ UNCHANGED <<cacheVars, prodVars, readVars, srcVars, histVars>>
    /\ UNCHANGED mixVars

    /\ UNCHANGED <<auditVars, auxVars>>
Next ==
    \/ P_Loop
    \/ P_Input
    \/ P_Copy
    \/ M_Skip
    \/ M_Read
    \/ C_Refill
    \/ C_RefillCb
    \/ M_Return
    \/ A_Play
    \/ A_Pause
    \/ A_FlushNull
    \/ A_FlushWait
    \/ A_Flush
    \/ A_Abort
    \/ A_AbortLocked
    \/ A_SetCache
    \/ A_SetEventCb
    \/ A_GetStatus

Spec == Init /\ [][Next]_vars

(***************************************************************************)
(* The played counter: restore_stream and get_status_stream(PLAYED) on a   *)
(* stream no data has flowed through, for the device formats of            *)
(* output_alsa_open.  The products below stay far from the 64 bits of      *)
(* s->played.                                                              *)
(***************************************************************************)
\* Device sample rates and channel counts.
Samplerates == {8000, 44100, 48000}

Channels == {1, 2}

\* output_alsa_open with any of these formats.
DevAny ==
    /\ samplerate \in Samplerates
    /\ channels \in Channels
    /\ restored = -1
    /\ status_ret = -1

\* s->played = ((uint64_t)value) * h->samplerate * h->channels / 1000
PlayedOfMs(value) == (value * samplerate * channels) \div 1000

\* ret = s->played * 1000 / h->samplerate / h->channels
MsOfPlayed(p) == ((p * 1000) \div samplerate) \div channels

\* output_alsa_restore_stream(h, s, value)
A_Restore ==
    /\ ApiEnter
    /\ \E value \in 0..MaxMs :
         /\ played' = PlayedOfMs(value)
         /\ restored' = value
    /\ status_ret' = -1
    /\ UNCHANGED <<out_mutex, is_playing, end_of_stream, abort, s_cache, delay,
                   event_cb, buffering, edges, ends>>
    /\ UNCHANGED <<cacheVars, prodVars, readVars, extVars, srcVars, histVars>>
    /\ UNCHANGED <<mixVars, auditVars, low_mem, samplerate, channels,
                   passVars, listVars, thrVars>>

\* output_alsa_get_status_stream(h, s, OUTPUT_STREAM_PLAYED)
A_GetPlayed ==
    /\ ApiEnter
    /\ status_ret' = MsOfPlayed(played)
    /\ UNCHANGED <<out_mutex, is_playing, end_of_stream, played, abort,
                   s_cache, delay, event_cb, buffering, edges, ends>>
    /\ UNCHANGED <<cacheVars, prodVars, readVars, extVars, srcVars, histVars>>
    /\ UNCHANGED <<mixVars, auditVars, low_mem, samplerate, channels,
                   restored, passVars, listVars, thrVars>>

PlayedNext ==
    \/ A_Restore
    \/ A_GetPlayed

InitPlayed ==
    CacheInit /\ StreamInit /\ MixIdle /\ MemInit /\ DevAny /\ PassIdle
    /\ ListInit
    /\ ThreadInit

SpecPlayed == InitPlayed /\ [][PlayedNext]_vars

(***************************************************************************)
(* The sample loop of output_alsa_mix_streams for one sample index: every  *)
(* contributing stream folds its scaled sample into the output buffer.     *)
(***************************************************************************)
\* sample = output_alsa_vol(p_in[i], s->volume); p_out[i] = sample (first
\* stream) or output_alsa_add(p_out[i], sample).
Mix_Stream ==
    /\ mixed < MaxStreams
    /\ \E x \in Samples, v \in Volumes :
         LET sample == output_alsa_vol(x, v)
         IN  /\ mix_in' = x
             /\ mix_vol' = v
             /\ mix_sample' = sample
             /\ p_out' = IF first THEN sample
                         ELSE output_alsa_add(p_out, sample)
    /\ mix_prev' = IF first THEN 0 ELSE p_out
    /\ first' = FALSE
    /\ mixed' = mixed + 1
    /\ UNCHANGED <<cacheVars, prodVars, readVars, extVars, srcVars, histVars,
                   streamVars>>

    /\ UNCHANGED <<auditVars, auxVars>>
\* The next pass: first = 1; the output buffer keeps its samples.
Mix_Pass ==
    /\ mixed > 0
    /\ first' = TRUE
    /\ mixed' = 0
    /\ mix_in' = 0
    /\ mix_vol' = 0
    /\ mix_prev' = 0
    /\ mix_sample' = 0
    /\ UNCHANGED p_out
    /\ UNCHANGED <<cacheVars, prodVars, readVars, extVars, srcVars, histVars,
                   streamVars>>

    /\ UNCHANGED <<auditVars, auxVars>>
MixNext ==
    \/ Mix_Stream
    \/ Mix_Pass

InitMix ==
    CacheInit /\ StreamInit /\ MixInit /\ MemInit /\ DevInit /\ PassIdle
    /\ ListInit
    /\ ThreadInit

SpecMix == InitMix /\ [][MixNext]_vars

(***************************************************************************)
(* output_alsa_mix_streams, a whole pass over the streams of the list that *)
(* are playing and whose cache_read returned frames.  A stream that is     *)
(* paused or ended, or that read nothing, is passed over by `continue` and *)
(* changes nothing below.                                                  *)
(***************************************************************************)
\* Input samples and volumes of the streams of a pass.
PassSamples == {-1, INT32_MAX}

PassVolumes == {OUTPUT_VOLUME_MAX \div 2, OUTPUT_VOLUME_MAX}

\* if(out_size < in_size); out_size = in_size;  the if controls an empty
\* statement and the assignment is always made.
OutSizeAfter(cur, in_size) == in_size

\* Lines 598-616: the output buffer after a stream of in_size samples xs
\* at volume v, first or not.
OutBufferAfter(buf, isfirst, in_size, xs, v) ==
    [i \in 1..Len(buf) |->
        IF i > in_size THEN buf[i]
        ELSE IF isfirst THEN output_alsa_vol(xs[i], v)
        ELSE output_alsa_add(buf[i], output_alsa_vol(xs[i], v))]

\* The body of the for loop for a stream that read in_size > 0 samples.
Pass_Stream ==
    /\ Len(contrib) < MaxStreams
    /\ \E in_size \in 1..PassLen, v \in PassVolumes :
         \E xs \in [1..in_size -> PassSamples] :
            /\ out_buffer' = OutBufferAfter(out_buffer, first, in_size, xs, v)
            /\ out_size' = OutSizeAfter(out_size, in_size)
            /\ contrib' = Append(contrib, [n |-> in_size, vol |-> v, in |-> xs])
    /\ first' = FALSE
    /\ UNCHANGED passes
    /\ UNCHANGED <<p_out, mixed, mix_in, mix_vol, mix_prev, mix_sample>>
    /\ UNCHANGED <<cacheVars, prodVars, readVars, extVars, srcVars, histVars,
                   streamVars, auditVars, low_mem, devVars, listVars,
                   thrVars>>

\* return out_size, and the next call: out_size = 0; first = 1.  The output
\* buffer of output_alsa_thread keeps its samples.
Pass_End ==
    /\ contrib # <<>>
    /\ passes < MaxPasses
    /\ passes' = passes + 1
    /\ out_size' = 0
    /\ first' = TRUE
    /\ contrib' = <<>>
    /\ UNCHANGED out_buffer
    /\ UNCHANGED <<p_out, mixed, mix_in, mix_vol, mix_prev, mix_sample>>
    /\ UNCHANGED <<cacheVars, prodVars, readVars, extVars, srcVars, histVars,
                   streamVars, auditVars, low_mem, devVars, listVars,
                   thrVars>>

PassNext ==
    \/ Pass_Stream
    \/ Pass_End

\* output_alsa_thread before its first pass: out_buffer comes from malloc
\* and holds any samples.
PassInit ==
    /\ out_buffer \in [1..PassLen -> PassSamples]
    /\ out_size = 0
    /\ contrib = <<>>
    /\ passes = 1

InitPass ==
    CacheInit /\ StreamInit /\ MixIdle /\ MemInit /\ DevInit /\ PassInit
    /\ ListInit
    /\ ThreadInit

SpecPass == InitPass /\ [][PassNext]_vars

(***************************************************************************)
(* The stream list of the output.  Stream s is the one the s-th caller of  *)
(* add_stream allocates.  add_stream links its stream in without taking    *)
(* output.mutex, in two steps (lines 216 and 217); remove_stream and the   *)
(* mixer take output.mutex, which does not keep add_stream out, so         *)
(* remove_stream is followed in two steps as well: the search, then the    *)
(* unlinking.                                                              *)
(***************************************************************************)
\* The streams reached from stream id by next, at most fuel of them.
RECURSIVE ListFrom(_, _)
ListFrom(id, fuel) ==
    IF id = 0 \/ fuel = 0 THEN <<>>
    ELSE <<id>> \o ListFrom(s_next[id], fuel - 1)

\* The list from h->streams.
StreamList == ListFrom(streams, MaxStreams)

\* s->next = h->streams;
L_AddLink ==
    /\ \E s \in 1..MaxStreams :
         /\ add_pc[s] = "idle"
         /\ s_next' = [s_next EXCEPT ![s] = streams]
         /\ add_pc' = [add_pc EXCEPT ![s] = "link"]
    /\ UNCHANGED <<streams, r_pc, r_s, r_prev, r_cur, added, removed, walked>>
    /\ UNCHANGED <<cacheVars, prodVars, readVars, extVars, srcVars, histVars,
                   streamVars, mixVars, auditVars, low_mem, devVars, passVars,
                   thrVars>>

\* h->streams = s; return s;
L_AddHead ==
    /\ \E s \in 1..MaxStreams :
         /\ add_pc[s] = "link"
         /\ streams' = s
         /\ add_pc' = [add_pc EXCEPT ![s] = "done"]
         /\ added' = added \cup {s}
    /\ UNCHANGED <<s_next, r_pc, r_s, r_prev, r_cur, removed, walked>>
    /\ UNCHANGED <<cacheVars, prodVars, readVars, extVars, srcVars, histVars,
                   streamVars, mixVars, auditVars, low_mem, devVars, passVars,
                   thrVars>>

\* The position in list l of stream s, 0 when it is not there.
IndexOf(l, s) ==
    IF \E i \in 1..Len(l) : l[i] = s
    THEN CHOOSE i \in 1..Len(l) : l[i] = s
    ELSE 0

\* output_alsa_remove_stream(h, s) for a stream add_stream returned:
\* pthread_mutex_lock(&h->mutex) and the while loop up to if(s == cur), or
\* to its end when s is not in the list (cur == NULL).
L_RemoveFind ==
    /\ r_pc = "idle"
    /\ out_mutex = "free"
    /\ \E s \in added \ removed :
         LET l == StreamList
             i == IndexOf(l, s)
         IN  /\ r_s' = s
             /\ r_cur' = IF i = 0 THEN 0 ELSE s
             /\ r_prev' = IF i <= 1 THEN 0 ELSE l[i - 1]
    /\ r_pc' = "unlink"
    /\ out_mutex' = "api"
    /\ UNCHANGED <<streams, s_next, add_pc, added, removed, walked>>
    /\ UNCHANGED <<is_playing, end_of_stream, played, abort, s_cache, delay,
                   event_cb, buffering, edges, ends, calls>>
    /\ UNCHANGED <<cacheVars, prodVars, readVars, extVars, srcVars, histVars,
                   mixVars, auditVars, low_mem, devVars, passVars, thrVars>>

\* if(prev == NULL) h->streams = cur->next; else prev->next = cur->next;
\* pthread_mutex_unlock(&h->mutex); output_alsa_free_stream(s); return 0;
L_RemoveUnlink ==
    /\ r_pc = "unlink"
    /\ IF r_cur = 0
       THEN UNCHANGED <<streams, s_next>>
       ELSE IF r_prev = 0
       THEN streams' = s_next[r_cur] /\ UNCHANGED s_next
       ELSE /\ s_next' = [s_next EXCEPT ![r_prev] = s_next[r_cur]]
            /\ UNCHANGED streams
    /\ removed' = removed \cup {r_s}
    /\ r_pc' = "idle"
    /\ r_s' = 0
    /\ r_prev' = 0
    /\ r_cur' = 0
    /\ out_mutex' = "free"
    /\ UNCHANGED <<add_pc, added, walked>>
    /\ UNCHANGED <<is_playing, end_of_stream, played, abort, s_cache, delay,
                   event_cb, buffering, edges, ends, calls>>
    /\ UNCHANGED <<cacheVars, prodVars, readVars, extVars, srcVars, histVars,
                   mixVars, auditVars, low_mem, devVars, passVars, thrVars>>

\* output_alsa_mix_streams: for(s = h->streams; s != NULL; s = s->next),
\* under output.mutex.
L_MixPass ==
    /\ out_mutex = "free"
    /\ walked' = StreamList
    /\ UNCHANGED <<streams, s_next, add_pc, r_pc, r_s, r_prev, r_cur, added,
                   removed>>
    /\ UNCHANGED <<cacheVars, prodVars, readVars, extVars, srcVars, histVars,
                   streamVars, mixVars, auditVars, low_mem, devVars, passVars,
                   thrVars>>

ListNext ==
    \/ L_AddLink
    \/ L_AddHead
    \/ L_RemoveFind
    \/ L_RemoveUnlink
    \/ L_MixPass

SpecList == Init /\ [][ListNext]_vars

(***************************************************************************)
(* output_alsa_thread: one iteration of its loop per step, for a mixer     *)
(* pass that returned no frame or some frames, and the clock.              *)
(***************************************************************************)
MAX_SILENCE == 5

\* A second passes.
T_Tick ==
    /\ now < MaxTime
    /\ now' = now + 1
    /\ UNCHANGED <<t_run, start, stopped, sil_from, drain_run>>
    /\ UNCHANGED <<cacheVars, prodVars, readVars, extVars, srcVars, histVars,
                   streamVars, mixVars, auditVars, low_mem, devVars, passVars,
                   listVars>>

\* snd_pcm_writei and, on an error, snd_pcm_recover: the thread goes on
\* (TRUE) or leaves its loop by break (FALSE).
snd_pcm_writei == BOOLEAN

\* else if(start == 0) start = time(NULL);
StartAfterEmpty == IF start = 0 THEN now ELSE start

\* An iteration with out_size == 0: wait while the device is stopped; else
\* start the timer if it is not started, drain and stop the device when
\* time(NULL) - start > MAX_SILENCE, else write a buffer of zeros.
T_PassEmpty ==
    /\ t_run
    /\ sil_from' = IF sil_from = 0 THEN now ELSE sil_from
    /\ IF stopped
       THEN UNCHANGED <<t_run, start, stopped, drain_run>>
       ELSE /\ start' = StartAfterEmpty
            /\ IF now - StartAfterEmpty > MAX_SILENCE
               THEN /\ stopped' = TRUE
                    /\ drain_run' = now - sil_from'
                    /\ UNCHANGED t_run
               ELSE /\ \E ok \in snd_pcm_writei : t_run' = ok
                    /\ UNCHANGED <<stopped, drain_run>>
    /\ UNCHANGED now
    /\ UNCHANGED <<cacheVars, prodVars, readVars, extVars, srcVars, histVars,
                   streamVars, mixVars, auditVars, low_mem, devVars, passVars,
                   listVars>>

\* An iteration with out_size != 0: else if(stopped) { snd_pcm_prepare;
\* stopped = 0; start = 0; } and the frames are written.
T_PassAudio ==
    /\ t_run
    /\ sil_from' = 0
    /\ IF stopped
       THEN stopped' = FALSE /\ start' = 0
       ELSE UNCHANGED <<stopped, start>>
    /\ \E ok \in snd_pcm_writei : t_run' = ok
    /\ UNCHANGED <<now, drain_run>>
    /\ UNCHANGED <<cacheVars, prodVars, readVars, extVars, srcVars, histVars,
                   streamVars, mixVars, auditVars, low_mem, devVars, passVars,
                   listVars>>

SilenceNext ==
    \/ T_Tick
    \/ T_PassEmpty
    \/ T_PassAudio

SpecSilence == Init /\ [][SilenceNext]_vars

\* The mixer thread and the producer thread are scheduled again and again;
\* the public calls are made or not.
FairSpec ==
    /\ Spec
    /\ WF_vars(P_Loop)
    /\ WF_vars(P_Input)
    /\ WF_vars(P_Copy)
    /\ WF_vars(M_Read)
    /\ WF_vars(C_Refill)
    /\ WF_vars(C_RefillCb)
    /\ WF_vars(M_Return)

(***************************************************************************)
(* Claims about the cache, checked under SpecCache (C18: SpecAlloc).       *)
(***************************************************************************)
TypeOK ==
    /\ len \in 0..CacheSize
    /\ len = Len(buffer)
    /\ ~oom => fmt_len \in Nat
    /\ ~oom => \A i \in 1..Len(fmt_list) : fmt_list[i].len \in Nat
    /\ Len(stage) <= StageCap
    /\ produced <= MaxFrames
    /\ Len(fmt_list) <= 3
    /\ played \in Nat
    /\ ends \in 0..1
    /\ calls \in 0..MaxCalls
    /\ Len(edges) <= 2

\* C1: the number of buffered frames len never exceeds the capacity size,
\* whatever the producer thread, the pull refill, the reads and the
\* flushes do.
C1_LenWithinSize == len <= CacheSize

\* C1 witness: the cache is full while the producer thread still holds
\* frames that did not fit.
C1_Witness == use_thread /\ len = CacheSize /\ stage # <<>>

\* C2: without a flush, the frames returned by the successive cache_read
\* calls are the first frames input_cb delivered, in order, none twice and
\* none skipped; when input_cb never changed the format it reports and
\* delivered every frame under it, a read that returns frames reports that
\* format.
C2_Fifo ==
    ~flushed =>
        /\ out = [i \in 1..Len(out) |-> i]
        /\ Len(out) <= produced
        /\ \A f \in Formats :
             (/\ cpc = "ret"
              /\ rd_ret > 0
              /\ src_fmt = f
              /\ \A i \in 1..Len(fmtOf) : fmtOf[i] = f) => rd_fmt = f

\* C2 witness: a second read has returned frames after a first one, and
\* frames are still buffered behind them.
C2_Witness ==
    /\ ~flushed
    /\ cpc = "ret"
    /\ rd_ret > 0
    /\ Len(out) > rd_ret
    /\ len > 0

\* Every delivered frame has a format, and the format changed at most once.
TwoFormatStream ==
    /\ \A i \in 1..Len(fmtOf) : fmtOf[i] \in Formats
    /\ \A i, j \in 1..Len(fmtOf) :
         (i < j /\ fmtOf[i] # fmtOf[1]) => fmtOf[j] = fmtOf[i]

\* C3: the producer delivers frames under format A and then frames under
\* format B (every segment of the format list is of A or B and has
\* delivered frames), and every cache_read on a ready cache asks for more
\* frames than the buffer holds of the format of its first frame.  Then
\* each such read returns exactly those frames, with that format as
\* out_fmt: the N1 frames of A with out_fmt = A, then frames of B with
\* out_fmt = B.
C3_FormatBoundary ==
    (/\ cpc = "ret"
     /\ ~flushed
     /\ ~part_read
     /\ TwoFormatStream
     /\ \A i \in 1..Len(rd_pre.segs) :
          \E j \in 1..Len(fmtOf) : rd_pre.segs[i] = fmtOf[j]
     /\ rd_pre.ready
     /\ rd_pre.buffer # <<>>) =>
        /\ rd_fmt = fmtOf[rd_pre.buffer[1]]
        /\ rd_size = RunLen(rd_pre.buffer)

\* C5: in pull mode, a cache_read issued on an empty cache after input_cb
\* returned a negative value, or during which input_cb does so, returns -1;
\* one issued after that on a cache holding frames returns the number of
\* frames it read (no flush is involved).
C5_EosReads ==
    (cpc = "ret" /\ ~use_thread /\ eos /\ ~flushed) =>
        /\ rd_pre.buffer = <<>> => rd_ret = -1
        /\ (rd_pre.eos /\ rd_pre.buffer # <<>>) => rd_ret = Len(rd_ids)

\* C8: while the caller of cache_flush holds input_lock the cache has
\* len = 0, is_ready = false and an empty format list, and a second
\* cache_flush called then is not blocked.
C8_FlushTwice ==
    /\ input_lock = "ext" => (len = 0 /\ ~is_ready /\ fmt_list = <<>>)
    /\ ~(xpc = "flush_lock" /\ input_lock = "ext")

\* C9: is_ready is true exactly when len > 0 and len has reached size since
\* the cache was last empty.
C9_ReadyIffEverFull == is_ready <=> (ever_full /\ len > 0)

\* C9 witness: a cache that was filled and partly read is still ready.
C9_Witness == is_ready /\ 0 < len /\ len < CacheSize

\* The sum of the stored len of the segments of a format list.
RECURSIVE SegmentSum(_)
SegmentSum(list) ==
    IF list = <<>> THEN 0 ELSE Head(list).len + SegmentSum(Tail(list))

\* C14: in every state, the stored len of the segments of the format list
\* and fmt_len add up to the number of buffered frames len.
C14_SegmentsSumToLen == SegmentSum(fmt_list) + fmt_len = len

\* C15: when the format list is not empty and the cache holds frames, the
\* head segment's fmt is the format input_cb reported for the oldest
\* buffered frame (no flush is involved, every frame was delivered under
\* format A or B, and every segment is of a format that has delivered
\* frames).
C15_HeadIsOldestFormat ==
    (/\ ~flushed
     /\ TwoFormatStream
     /\ \A i \in 1..Len(fmt_list) :
          \E j \in 1..Len(fmtOf) : fmt_list[i].fmt = fmtOf[j]
     /\ fmt_list # <<>>
     /\ len > 0) => fmt_list[1].fmt = fmtOf[buffer[1]]

\* C18: a producer step (threaded iteration or pull-mode refill) in which
\* the malloc of cache_put_format fails leaves the cache as it was: len,
\* fmt_len, is_ready, the format list and the buffered frames are those
\* of before the batch.
C18_OomLeavesCache ==
    [][(~oom /\ oom') =>
           /\ len' = len
           /\ fmt_len' = fmt_len
           /\ is_ready' = is_ready
           /\ fmt_list' = fmt_list
           /\ buffer' = buffer]_vars

\* C19: every write to len, is_ready, fmt_len and the format list is made
\* by a thread that holds h->mutex: no such field has been written outside
\* it.
C19_WritesUnderMutex == bare = {}

\* C22: cache_close on a threaded cache terminates: once it is called (its
\* cache_unlock done) it returns, the producer thread having exited.
C22_CloseTerminates ==
    (use_thread /\ xpc = "close_stop") ~> (xpc = "closed" /\ ppc = "exited")

\* C22 witness: cache_close has returned on a threaded cache whose
\* input_lock the outside caller held when it called cache_close.
C22_Witness == use_thread /\ xpc = "closed" /\ close_lock = "ext"

\* C23: input_lock is released only by the thread that holds it (no
\* cache_unlock runs while the lock is free or held by another thread), and
\* neither the producer thread exits nor cache_read returns holding it.
C23_UnlockOnlyByHolder ==
    /\ misuse = {}
    /\ ~(input_lock = "producer" /\ ppc = "exited")
    /\ ~(input_lock = "consumer" /\ cpc = "idle")

(***************************************************************************)
(* Claims about the output stream, checked under Spec, FairSpec (C4) and   *)
(* SpecPlayed (C11).                                                       *)
(***************************************************************************)
\* C4: for a stream that is playing, once input_cb has returned a negative
\* value the mixer eventually marks the stream end_of_stream (the stream
\* may be paused first, or a public call may be stuck under output.mutex),
\* under fair scheduling of the mixer and producer threads.
C4_EosEventuallyEnds ==
    (eos /\ is_playing) ~> (end_of_stream \/ ~is_playing \/ xpc # "idle")

\* C6: in the events given to the event callback of the stream, BUFFERING
\* and READY alternate, starting with BUFFERING: the first is not READY and
\* no two consecutive ones are equal.
C6_EdgesAlternate ==
    /\ edges # <<"READY">>
    /\ Len(edges) = 2 => edges[1] # edges[2]

\* input_lock is held and nothing will release it: it was left held by a
\* flush or an abort of the calling thread, by the producer thread that
\* exited, or by a cache_read that returned.
LockLeaked ==
    \/ input_lock = "ext"
    \/ input_lock = "producer" /\ ppc = "exited"
    \/ input_lock = "consumer" /\ cpc = "idle"

\* C7: no public call waits for the cache input_lock, output.mutex held,
\* when nothing will release input_lock.
C7_NoCallStuck ==
    ~(xpc \in {"flush_lock", "abort_lock"} /\ out_mutex = "api" /\ LockLeaked)

\* C12: once the mixer has marked the stream end_of_stream and closed its
\* cache (s->cache = NULL), no public call on the stream uses the null
\* cache: none dies dereferencing it.
C12_NoNullCacheUse == ~(end_of_stream /\ s_cache = "null" /\ xpc = "crashed")

\* C13: no thread is at a call of input_cb while it holds output.mutex: the
\* mixer is never inside the pull-mode refill of cache_read with
\* output.mutex held.
C13_NoCbUnderMutex == ~(cpc = "cb" /\ out_mutex = "mixer")

\* C11: for every millisecond value K and every device format,
\* get_status_stream(PLAYED) called after restore_stream(K), before any
\* data flows, returns K.
C11_RestoreRoundTrip ==
    (restored # -1 /\ status_ret # -1) => status_ret = restored

(***************************************************************************)
(* Claims about the sample arithmetic, checked under SpecMix.              *)
(***************************************************************************)
\* a + b clamped to INT32_MIN..INT32_MAX, by comparisons that stay in range.
SatSum(a, b) ==
    IF b > 0 /\ a > INT32_MAX - b THEN INT32_MAX
    ELSE IF b < 0 /\ a < INT32_MIN - b THEN INT32_MIN
    ELSE a + b

\* r is x scaled by a volume v in 0..VMAX: between 0 and x, 0 at volume 0, x
\* at full volume, and x * v / VMAX rounded toward zero where the product
\* is small.
ScaledBy(r, x, v) ==
    /\ x >= 0 => (0 <= r /\ r <= x)
    /\ x <= 0 => (x <= r /\ r <= 0)
    /\ v = 0 => r = 0
    /\ v = OUTPUT_VOLUME_MAX => r = x
    /\ (0 <= x /\ x < 2^15) => r = (x * v) \div OUTPUT_VOLUME_MAX
    /\ (-(2^15) < x /\ x <= 0) => r = -(((-x) * v) \div OUTPUT_VOLUME_MAX)

\* C10: the sample a stream contributes is its input scaled by its volume,
\* within 32 bits, and the output sample after each stream is the sum of
\* the output sample before it and that sample, clamped to
\* INT32_MIN..INT32_MAX: no mixing step wraps around.
C10_MixSaturates ==
    mixed > 0 =>
        /\ ScaledBy(mix_sample, mix_in, mix_vol)
        /\ p_out = IF mixed = 1 THEN mix_sample
                   ELSE SatSum(mix_prev, mix_sample)
        /\ INT32_MIN <= p_out /\ p_out <= INT32_MAX

\* C10 witness: two streams at full volume with samples INT32_MAX have
\* mixed to INT32_MAX.
C10_Witness ==
    /\ mixed = 2
    /\ mix_prev = INT32_MAX
    /\ mix_in = INT32_MAX
    /\ mix_vol = OUTPUT_VOLUME_MAX
    /\ p_out = INT32_MAX

(***************************************************************************)
(* Claims about a whole mixer pass, checked under SpecPass.                *)
(***************************************************************************)
\* The largest in_size among the streams that contributed in this pass.
MaxContribution ==
    IF contrib = <<>> THEN 0
    ELSE CHOOSE m \in {contrib[k].n : k \in 1..Len(contrib)} :
             \A k \in 1..Len(contrib) : contrib[k].n <= m

\* C16: the out_size a mixer pass returns is the largest number of samples
\* a stream contributed in the pass, whatever the order of the streams.
C16_OutSizeIsMax == out_size = MaxContribution

\* The sample at index i mixed from the first k contributing streams: <<>>
\* when none of them reached index i, else <<the saturating sum of their
\* volume-scaled samples at i>>.
RECURSIVE MixedSample(_, _)
MixedSample(k, i) ==
    IF k = 0 THEN <<>>
    ELSE LET prev == MixedSample(k - 1, i)
             c == contrib[k]
         IN  IF c.n < i THEN prev
             ELSE IF prev = <<>> THEN <<output_alsa_vol(c.in[i], c.vol)>>
             ELSE <<SatSum(prev[1], output_alsa_vol(c.in[i], c.vol))>>

\* C17: during and after a pass, every output sample at an index below the
\* longest contribution is the saturating sum of the volume-scaled samples
\* at that index of the streams that contributed that many samples; it
\* does not depend on what an earlier pass left in the output buffer.
C17_OutputIsMix ==
    \A i \in 1..MaxContribution :
        <<out_buffer[i]>> = MixedSample(Len(contrib), i)

(***************************************************************************)
(* Claims about the stream list, checked under SpecList.                   *)
(***************************************************************************)
\* C20: when no add_stream or remove_stream call is under way, the stream
\* list holds exactly the streams that were added and not removed.
C20_ListIsAddedNotRemoved ==
    (r_pc = "idle" /\ \A s \in 1..MaxStreams : add_pc[s] # "link") =>
        {StreamList[i] : i \in 1..Len(StreamList)} = added \ removed

(***************************************************************************)
(* Claims about the silence timer, checked under SpecSilence.              *)
(***************************************************************************)
\* C21: when the mixer thread drains the device, the run of empty passes
\* that ends there, counted from its own first empty pass after the last
\* pass with audio, has lasted at least MAX_SILENCE seconds.
C21_DrainAfterFullSilence == drain_run # -1 => drain_run >= MAX_SILENCE

==========================================================================
